---- MODULE Spec2Model ----
(***************************************************************************)
(* Model of sota-rag-upgrade/fix-env-and-deploy.py: the repair of the .env *)
(* file, the construction and import of the n8n credentials, and the       *)
(* patching and import of the two workflow documents, as run by main().    *)
(*                                                                         *)
(* Text is modelled by TLA+ strings; a file is the sequence of its         *)
(* physical lines as readlines() returns them: every line keeps its "\n",  *)
(* except possibly the last one.  A dict is the sequence of its            *)
(* (key, value) items in insertion order.                                  *)
(***************************************************************************)
EXTENDS Integers, Sequences, FiniteSets, TLC

VARIABLES
    pc,           \* position of main(): which call comes next
    envExists,    \* os.path.exists(".env")
    envFile,      \* the lines of .env on disk
    envRead,      \* the lines fix_env_file got from readlines()
    envOps,       \* the open() calls made on .env, in order: "r", "w"
    api_keys,     \* the dict returned by fix_env_file
    credentials,  \* the list returned by create_credentials_directly
    cred_ids,     \* the dict of generated ids, or NoIds before they exist
    wfExists,     \* os.path.exists(workflow) for the two workflow files
    wfDoc,        \* the parsed JSON document of each workflow file
    tmpFiles,     \* the files written under /tmp, by path
    cmds,         \* the subprocess.run calls made, in order, with their status
    reported,     \* per workflow, the update counts printed: none, or one on success
    wi,           \* index of the next workflow of main's for loop
    imported,     \* main's tally of imported workflows
    exitStatus    \* the status the process exits with, or NoExit while running

vars == <<pc, envExists, envFile, envRead, envOps, api_keys, credentials, cred_ids,
          wfExists, wfDoc, tmpFiles, cmds, reported, wi, imported, exitStatus>>

NoExit == "running"
NoIds == "no-ids"
NoReport == <<>>

-----------------------------------------------------------------------------
(* Python's str and dict operations used by the script. *)

Whitespace == {" ", "\t", "\n", "\r"}

startswith(s, p) == Len(s) >= Len(p) /\ SubSeq(s, 1, Len(p)) = p

RECURSIVE lstrip(_)
lstrip(s) ==
    IF Len(s) > 0 /\ SubSeq(s, 1, 1) \in Whitespace THEN lstrip(Tail(s)) ELSE s

RECURSIVE rstrip(_)
rstrip(s) ==
    IF Len(s) > 0 /\ SubSeq(s, Len(s), Len(s)) \in Whitespace
    THEN rstrip(SubSeq(s, 1, Len(s) - 1))
    ELSE s

strip(s) == rstrip(lstrip(s))

\* s.split("=", 1)[1], for an s that contains "=": the text after the first "="
RECURSIVE split_eq_1(_)
split_eq_1(s) ==
    IF SubSeq(s, 1, 1) = "=" THEN Tail(s) ELSE split_eq_1(Tail(s))

\* os.path.basename
RECURSIVE basename(_)
basename(p) ==
    IF \E i \in 1..Len(p) : SubSeq(p, i, i) = "/"
    THEN basename(Tail(p))
    ELSE p

DictKeys(d) == {d[i][1] : i \in 1..Len(d)}

\* d.get(k): the value, or "" (falsy, like None) when the key is missing
DictGet(d, k) ==
    IF k \in DictKeys(d)
    THEN LET i == CHOOSE n \in 1..Len(d) : d[n][1] = k IN d[i][2]
    ELSE ""

\* d[k] = v: a new key goes last, an old one keeps its place
DictSet(d, k, v) ==
    IF k \in DictKeys(d)
    THEN [i \in 1..Len(d) |-> IF d[i][1] = k THEN <<k, v>> ELSE d[i]]
    ELSE Append(d, <<k, v>>)

\* f.write(text) on a file held as lines: text, given as its own lines, goes
\* after the last line, completing it when it has no "\n" yet
WriteText(file, text) ==
    IF text = <<>> THEN file
    ELSE IF file # <<>> /\ SubSeq(file[Len(file)], Len(file[Len(file)]), Len(file[Len(file)])) # "\n"
    THEN SubSeq(file, 1, Len(file) - 1) \o <<file[Len(file)] \o text[1]>> \o Tail(text)
    ELSE file \o text

-----------------------------------------------------------------------------
(* fix_env_file *)

PLACEHOLDER == "xxxxxx"

\* line 38-40: the lines that end the reconstruction of the OpenAI key
StopsContinuation(raw) ==
    \/ startswith(strip(raw), "MISTRAL_API_KEY")
    \/ startswith(strip(raw), "COHERE_API_KEY")
    \/ startswith(strip(raw), "#")

\* lines 37-42: the inner while loop, from j with api_key so far;
\* returns <<j, api_key>> at its exit
RECURSIVE continue_key(_, _, _)
continue_key(lines, j, api_key) ==
    IF j <= Len(lines) /\ ~StopsContinuation(lines[j])
    THEN continue_key(lines, j + 1, api_key \o strip(lines[j]))
    ELSE <<j, api_key>>

\* RetainedLine with "#" added to the prefixes of lines 51-53, as on lines 38-40
RetainedLine_DropsComments(line) ==
    ~(\/ startswith(line, "OPENAI_API_KEY")
      \/ startswith(line, "MISTRAL_API_KEY")
      \/ startswith(line, "COHERE_API_KEY")
      \/ startswith(line, "#"))

\* lines 51-53: the test of the last elif
RetainedLine(line) ==
    ~(\/ startswith(line, "OPENAI_API_KEY")
      \/ startswith(line, "MISTRAL_API_KEY")
      \/ startswith(line, "COHERE_API_KEY"))

\* lines 29-56: the outer while loop, from i; returns <<env_lines, api_keys>>
RECURSIVE scan_env(_, _, _, _)
scan_env(lines, i, env_lines, keys) ==
    IF i > Len(lines) THEN <<env_lines, keys>>
    ELSE LET line == strip(lines[i]) IN
         IF startswith(line, "OPENAI_API_KEY=")
         THEN LET r == continue_key(lines, i + 1, split_eq_1(line))
              IN scan_env(lines, r[1], env_lines, DictSet(keys, "OPENAI_API_KEY", r[2]))
         ELSE IF startswith(line, "MISTRAL_API_KEY=")
         THEN scan_env(lines, i + 1, env_lines, DictSet(keys, "MISTRAL_API_KEY", split_eq_1(line)))
         ELSE IF startswith(line, "COHERE_API_KEY=")
         THEN scan_env(lines, i + 1, env_lines, DictSet(keys, "COHERE_API_KEY", split_eq_1(line)))
         ELSE IF startswith(line, "ZEP_API_KEY=")
         THEN scan_env(lines, i + 1, env_lines, DictSet(keys, "ZEP_API_KEY", split_eq_1(line)))
         ELSE IF RetainedLine(line)
         THEN scan_env(lines, i + 1, Append(env_lines, lines[i]), keys)
         ELSE scan_env(lines, i + 1, env_lines, keys)

\* WrittenBack without the placeholder test of line 66
WrittenBack_AnyValue(value) == value # ""

\* line 66: whether a captured key is written back
WrittenBack(value) == value # "" /\ value # PLACEHOLDER

\* lines 65-67: the corrected KEY=value lines, in the dict's order
RECURSIVE corrected_lines(_)
corrected_lines(keys) ==
    IF keys = <<>> THEN <<>>
    ELSE (IF WrittenBack(keys[1][2])
          THEN <<keys[1][1] \o "=" \o keys[1][2] \o "\n">>
          ELSE <<>>) \o corrected_lines(Tail(keys))

\* lines 59-67: the rewritten file
rewrite_env(env_lines, keys) ==
    WriteText(WriteText(env_lines, <<"\n", "# SOTA RAG API Keys (Corrected)\n">>),
              corrected_lines(keys))

\* lines 16-69: fix_env_file, given whether .env exists and its lines; returns
\* the dict, the lines .env holds afterwards and the open() calls it made
fix_env_file(exists, lines) ==
    IF exists
    THEN LET r == scan_env(lines, 1, <<>>, <<>>) IN
         [api_keys |-> r[2], file |-> rewrite_env(r[1], r[2]), opens |-> <<"r", "w">>]
    ELSE [api_keys |-> <<>>, file |-> lines, opens |-> <<>>]

-----------------------------------------------------------------------------
(* create_credentials_directly *)

Families == {"openai", "mistral", "supabase", "postgres", "cohere"}

\* lines 12-13 and 88-94: secrets.token_hex(8) draws each of the five ids among
\* the 16-digit hex strings; three draws stand for all: the five ids all
\* different, all equal, and only the OpenAI and the Cohere id equal
IdAssignments ==
    { [openai |-> "1a2b3c4d5e6f7a8b", mistral |-> "9c0d1e2f3a4b5c6d",
       supabase |-> "0f1e2d3c4b5a6978", postgres |-> "8877665544332211",
       cohere |-> "cafebabe01234567"],
      [f \in Families |-> "1a2b3c4d5e6f7a8b"],
      [openai |-> "1a2b3c4d5e6f7a8b", mistral |-> "9c0d1e2f3a4b5c6d",
       supabase |-> "0f1e2d3c4b5a6978", postgres |-> "8877665544332211",
       cohere |-> "1a2b3c4d5e6f7a8b"] }

\* lines 80-85: the value of the last line of the file that starts with prefix
RECURSIVE read_env_value(_, _, _)
read_env_value(file, prefix, value) ==
    IF file = <<>> THEN value
    ELSE read_env_value(Tail(file), prefix,
                        IF startswith(file[1], prefix)
                        THEN strip(split_eq_1(file[1]))
                        ELSE value)

openai_credential(keys, ids) ==
    IF DictGet(keys, "OPENAI_API_KEY") # ""
    THEN <<[id |-> ids.openai, name |-> "OpenAI SOTA RAG", type |-> "openAiApi",
            data |-> [apiKey |-> DictGet(keys, "OPENAI_API_KEY")]]>>
    ELSE <<>>

mistral_credential(keys, ids) ==
    IF DictGet(keys, "MISTRAL_API_KEY") # ""
    THEN <<[id |-> ids.mistral, name |-> "Mistral SOTA RAG", type |-> "mistralCloudApi",
            data |-> [apiKey |-> DictGet(keys, "MISTRAL_API_KEY")]]>>
    ELSE <<>>

supabase_credential(service_role_key, ids) ==
    IF service_role_key # ""
    THEN <<[id |-> ids.supabase, name |-> "Supabase SOTA RAG", type |-> "supabaseApi",
            data |-> [host |-> "http://kong:8000", serviceRole |-> service_role_key]]>>
    ELSE <<>>

postgres_credential(postgres_password, ids) ==
    IF postgres_password # ""
    THEN <<[id |-> ids.postgres, name |-> "Postgres SOTA RAG", type |-> "postgres",
            data |-> [host |-> "supabase-db", port |-> 5432, database |-> "postgres",
                      user |-> "supabase_admin", password |-> postgres_password]]>>
    ELSE <<>>

cohere_credential(keys, ids) ==
    IF DictGet(keys, "COHERE_API_KEY") # "" /\ DictGet(keys, "COHERE_API_KEY") # PLACEHOLDER
    THEN <<[id |-> ids.cohere, name |-> "Cohere SOTA RAG", type |-> "httpHeaderAuth",
            data |-> [name |-> "Authorization",
                      value |-> "Bearer " \o DictGet(keys, "COHERE_API_KEY")]]>>
    ELSE <<>>

\* lines 72-167, for an .env that exists, with ids the five generated ids
create_credentials_directly(keys, file, ids) ==
    LET service_role_key == read_env_value(file, "SERVICE_ROLE_KEY=", "")
        postgres_password == read_env_value(file, "POSTGRES_PASSWORD=", "")
    IN  openai_credential(keys, ids) \o mistral_credential(keys, ids)
        \o supabase_credential(service_role_key, ids)
        \o postgres_credential(postgres_password, ids)
        \o cohere_credential(keys, ids)

-----------------------------------------------------------------------------
(* import_credentials *)

ReturnCodes == {0, 1}

Run(argv, returncode) == [argv |-> argv, returncode |-> returncode]

CopyCredentials == <<"docker", "cp", "/tmp/sota_creds.json", "n8n:/tmp/creds.json">>
ExecImportCredentials ==
    <<"docker", "exec", "n8n", "n8n", "import:credentials", "--input=/tmp/creds.json">>

\* import_credentials without the return of lines 185-187
import_credentials_IgnoresCopyStatus(creds, rcCopy, rcImport) ==
    IF creds = <<>>
    THEN [result |-> FALSE, runs |-> <<>>, saved |-> FALSE]
    ELSE [result |-> rcImport = 0, saved |-> TRUE,
          runs |-> <<Run(CopyCredentials, rcCopy), Run(ExecImportCredentials, rcImport)>>]

\* lines 170-206, with the exit status each external command would give;
\* returns the result, the external commands run and whether the file was saved
import_credentials(creds, rcCopy, rcImport) ==
    IF creds = <<>>
    THEN [result |-> FALSE, runs |-> <<>>, saved |-> FALSE]
    ELSE IF rcCopy # 0
    THEN [result |-> FALSE, runs |-> <<Run(CopyCredentials, rcCopy)>>, saved |-> TRUE]
    ELSE IF rcImport # 0
    THEN [result |-> FALSE, saved |-> TRUE,
          runs |-> <<Run(CopyCredentials, rcCopy), Run(ExecImportCredentials, rcImport)>>]
    ELSE [result |-> TRUE, saved |-> TRUE,
          runs |-> <<Run(CopyCredentials, rcCopy), Run(ExecImportCredentials, rcImport)>>]

-----------------------------------------------------------------------------
(* update_and_import_workflow *)

LEGACY_OPENAI == "MM0xMOJkVoJoWOLP"
LEGACY_MISTRAL == "rmhBwssORDiWOBKN"
LEGACY_SUPABASE == "wwbxqbDc4H2RPQ1Y"
LEGACY_POSTGRES == "7aOzWLaZcz9dgeSv"
LEGACY_COHERE == "SaJzpmSGdmOFSPDn"

\* id_map with the Supabase and the Postgres ids exchanged
id_map_SupabasePostgresSwapped(ids) ==
    (LEGACY_OPENAI :> ids.openai) @@ (LEGACY_MISTRAL :> ids.mistral)
    @@ (LEGACY_SUPABASE :> ids.postgres) @@ (LEGACY_POSTGRES :> ids.supabase)
    @@ (LEGACY_COHERE :> IF "cohere" \in DOMAIN ids THEN ids.cohere ELSE ids.openai)

\* lines 217-223
id_map(ids) ==
    (LEGACY_OPENAI :> ids.openai) @@ (LEGACY_MISTRAL :> ids.mistral)
    @@ (LEGACY_SUPABASE :> ids.supabase) @@ (LEGACY_POSTGRES :> ids.postgres)
    @@ (LEGACY_COHERE :> IF "cohere" \in DOMAIN ids THEN ids.cohere ELSE ids.openai)

\* line 229: cred_info.get("id", "")
old_id(cred_info) == IF "id" \in DOMAIN cred_info THEN cred_info.id ELSE ""

\* lines 230-231
patch_cred_info(cred_info, map) ==
    IF old_id(cred_info) \in DOMAIN map
    THEN [cred_info EXCEPT !.id = map[old_id(cred_info)]]
    ELSE cred_info

\* lines 227-231, for one node
patch_node(node, map) ==
    IF "credentials" \in DOMAIN node
    THEN [node EXCEPT !.credentials =
             [t \in DOMAIN node.credentials |-> patch_cred_info(node.credentials[t], map)]]
    ELSE node

\* lines 226-232: the nodes of workflow.get("nodes", [])
nodes_of(workflow) == IF "nodes" \in DOMAIN workflow THEN workflow.nodes ELSE <<>>

patch_workflow(workflow, map) ==
    IF "nodes" \in DOMAIN workflow
    THEN [workflow EXCEPT !.nodes = [n \in 1..Len(workflow.nodes) |-> patch_node(workflow.nodes[n], map)]]
    ELSE workflow

\* line 232: the increments of updates made in one node
node_updates(node, map) ==
    IF "credentials" \in DOMAIN node
    THEN Cardinality({t \in DOMAIN node.credentials : old_id(node.credentials[t]) \in DOMAIN map})
    ELSE 0

RECURSIVE count_updates(_, _)
count_updates(nodes, map) ==
    IF nodes = <<>> THEN 0
    ELSE node_updates(nodes[1], map) + count_updates(Tail(nodes), map)

\* line 235
temp_file(workflow_file) == "/tmp/sota_workflow_" \o basename(workflow_file)

CopyWorkflow(workflow_file) == <<"docker", "cp", temp_file(workflow_file), "n8n:/tmp/import.json">>
ExecImportWorkflow ==
    <<"docker", "exec", "n8n", "n8n", "import:workflow", "--input=/tmp/import.json">>

\* update_and_import_workflow with the return of line 260 one level out, under
\* the test of line 245
update_and_import_workflow_SuccessAfterCopy(workflow_file, workflow, ids, rcCopy, rcImport) ==
    LET map == id_map(ids)
        updates == count_updates(nodes_of(workflow), map)
        patched == patch_workflow(workflow, map)
    IN  IF rcCopy = 0
        THEN [result |-> TRUE, saved |-> patched,
              printed |-> IF rcImport = 0 THEN <<updates>> ELSE NoReport,
              runs |-> <<Run(CopyWorkflow(workflow_file), rcCopy),
                         Run(ExecImportWorkflow, rcImport)>>]
        ELSE [result |-> FALSE, saved |-> patched, printed |-> NoReport,
              runs |-> <<Run(CopyWorkflow(workflow_file), rcCopy)>>]

\* lines 209-263, with the document read and the exit status each external
\* command would give; returns the result, the document saved, the external
\* commands run and the update counts printed (none, or one)
update_and_import_workflow(workflow_file, workflow, ids, rcCopy, rcImport) ==
    LET map == id_map(ids)
        updates == count_updates(nodes_of(workflow), map)
        patched == patch_workflow(workflow, map)
    IN  IF rcCopy = 0
        THEN IF rcImport = 0
             THEN [result |-> TRUE, saved |-> patched, printed |-> <<updates>>,
                   runs |-> <<Run(CopyWorkflow(workflow_file), rcCopy),
                              Run(ExecImportWorkflow, rcImport)>>]
             ELSE [result |-> FALSE, saved |-> patched, printed |-> NoReport,
                   runs |-> <<Run(CopyWorkflow(workflow_file), rcCopy),
                              Run(ExecImportWorkflow, rcImport)>>]
        ELSE [result |-> FALSE, saved |-> patched, printed |-> NoReport,
              runs |-> <<Run(CopyWorkflow(workflow_file), rcCopy)>>]

-----------------------------------------------------------------------------
(* main *)

\* lines 280-283
workflows == <<"workflows/sota/knowledge-graph.json", "workflows/sota/main-sota-rag.json">>

CREDS_FILE == "/tmp/sota_creds.json"
TmpPaths == {CREDS_FILE} \cup {temp_file(workflows[k]) : k \in 1..Len(workflows)}
NoFile == [file |-> "none"]

\* line 271
MainFixEnv ==
    /\ pc = "fix_env_file"
    /\ LET r == fix_env_file(envExists, envFile) IN
       /\ api_keys' = r.api_keys
       /\ envFile' = r.file
       /\ envRead' = IF envExists THEN envFile ELSE envRead
       /\ envOps' = envOps \o r.opens
    /\ pc' = "create_credentials_directly"
    /\ UNCHANGED <<envExists, credentials, cred_ids, wfExists, wfDoc, tmpFiles,
                   cmds, reported, wi, imported, exitStatus>>

\* line 275, when .env exists
MainCreateCredentials ==
    /\ pc = "create_credentials_directly"
    /\ envExists
    /\ \E ids \in IdAssignments :
          /\ cred_ids' = ids
          /\ credentials' = create_credentials_directly(api_keys, envFile, ids)
    /\ envOps' = envOps \o <<"r">>
    /\ pc' = "import_credentials"
    /\ UNCHANGED <<envExists, envFile, envRead, api_keys, wfExists, wfDoc, tmpFiles,
                   cmds, reported, wi, imported, exitStatus>>

\* line 275, when .env does not exist: open(".env") at line 80 raises
\* FileNotFoundError, nothing catches it, and the interpreter exits with 1
MainCreateCredentialsRaises ==
    /\ pc = "create_credentials_directly"
    /\ ~envExists
    /\ pc' = "raised"
    /\ exitStatus' = 1
    /\ UNCHANGED <<envExists, envFile, envRead, envOps, api_keys, credentials, cred_ids,
                   wfExists, wfDoc, tmpFiles, cmds, reported, wi, imported>>

\* lines 276-277
MainImportCredentials ==
    /\ pc = "import_credentials"
    /\ \E rcCopy \in ReturnCodes, rcImport \in ReturnCodes :
          LET r == import_credentials(credentials, rcCopy, rcImport) IN
          /\ cmds' = cmds \o r.runs
          /\ tmpFiles' = IF r.saved THEN [tmpFiles EXCEPT ![CREDS_FILE] = credentials]
                         ELSE tmpFiles
          /\ IF r.result
             THEN pc' = "workflows" /\ UNCHANGED exitStatus
             ELSE pc' = "returned" /\ exitStatus' = 1
    /\ UNCHANGED <<envExists, envFile, envRead, envOps, api_keys, credentials, cred_ids,
                   wfExists, wfDoc, reported, wi, imported>>

\* lines 286-289, for a workflow file that exists
MainWorkflow ==
    /\ pc = "workflows"
    /\ wi <= Len(workflows)
    /\ wfExists[workflows[wi]]
    /\ \E rcCopy \in ReturnCodes, rcImport \in ReturnCodes :
          LET r == update_and_import_workflow(workflows[wi], wfDoc[workflows[wi]],
                                              cred_ids, rcCopy, rcImport) IN
          /\ cmds' = cmds \o r.runs
          /\ tmpFiles' = [tmpFiles EXCEPT ![temp_file(workflows[wi])] = r.saved]
          /\ reported' = [reported EXCEPT ![workflows[wi]] = r.printed]
          /\ imported' = IF r.result THEN imported + 1 ELSE imported
    /\ wi' = wi + 1
    /\ UNCHANGED <<pc, envExists, envFile, envRead, envOps, api_keys, credentials, cred_ids,
                   wfExists, wfDoc, exitStatus>>

\* lines 286-287, for a workflow file that does not exist
MainSkipWorkflow ==
    /\ pc = "workflows"
    /\ wi <= Len(workflows)
    /\ ~wfExists[workflows[wi]]
    /\ wi' = wi + 1
    /\ UNCHANGED <<pc, envExists, envFile, envRead, envOps, api_keys, credentials, cred_ids,
                   wfExists, wfDoc, tmpFiles, cmds, reported, imported, exitStatus>>

\* lines 291-296
MainReturn ==
    /\ pc = "workflows"
    /\ wi > Len(workflows)
    /\ pc' = "returned"
    /\ exitStatus' = 0
    /\ UNCHANGED <<envExists, envFile, envRead, envOps, api_keys, credentials, cred_ids,
                   wfExists, wfDoc, tmpFiles, cmds, reported, wi, imported>>

-----------------------------------------------------------------------------
(* The runs of main(): from sample .env files and sample workflow documents *)

EnvComplete ==
    <<"OPENAI_API_KEY=sk-abc\n", "def\n", "MISTRAL_API_KEY=xyz\n", "COHERE_API_KEY=co\n",
      "SERVICE_ROLE_KEY=srk\n", "POSTGRES_PASSWORD=pw\n">>

EnvSamples ==
    { EnvComplete,
      <<"OPENAI_API_KEY=xxxxxx\n", "MISTRAL_API_KEY=xxxxxx\n", "COHERE_API_KEY=xxxxxx\n",
        "SERVICE_ROLE_KEY=xxxxxx\n">>,
      <<"POSTGRES_PASSWORD=pw\n", "ZEP_API_KEY=z\n", "OPENAI_API_KEY=sk-abc\n", "# end\n">>,
      <<"# n8n settings\n", "N8N_PORT=5678\n">>,
      <<"COHERE_API_KEY=xxxxxx\n", "ZEP_API_KEY=z\n">>,
      <<>> }

CredInfo(id) == [id |-> id, name |-> "SOTA RAG"]

WorkflowSamples ==
    { [name |-> "workflow",
       nodes |-> << [name |-> "Embeddings", credentials |-> [openAiApi |-> CredInfo(LEGACY_OPENAI)]],
                    [name |-> "Rerank", credentials |-> [httpHeaderAuth |-> CredInfo(LEGACY_COHERE)]],
                    [name |-> "Merge"] >>],
      [name |-> "workflow",
       nodes |-> << [name |-> "Store", credentials |-> [postgres |-> CredInfo(LEGACY_POSTGRES),
                                                        supabaseApi |-> CredInfo("kZ3e9QpLr7TtUv2X")]] >>] }

NoDoc == [name |-> "absent"]

WfInit(docs) ==
    /\ wfExists \in [{workflows[k] : k \in 1..Len(workflows)} -> BOOLEAN]
    /\ wfDoc \in [{workflows[k] : k \in 1..Len(workflows)} -> docs \cup {NoDoc}]
    /\ \A w \in DOMAIN wfDoc : wfExists[w] <=> wfDoc[w] # NoDoc

NotStarted ==
    /\ pc = "fix_env_file"
    /\ envRead = <<>>
    /\ envOps = <<>>
    /\ api_keys = <<>>
    /\ credentials = <<>>
    /\ cred_ids = NoIds
    /\ tmpFiles = [p \in TmpPaths |-> NoFile]
    /\ cmds = <<>>
    /\ reported = [k \in {workflows[n] : n \in 1..Len(workflows)} |-> NoReport]
    /\ wi = 1
    /\ imported = 0
    /\ exitStatus = NoExit

Init ==
    /\ envExists \in BOOLEAN
    /\ envFile \in EnvSamples
    /\ ~envExists => envFile = <<>>
    /\ WfInit(WorkflowSamples)
    /\ NotStarted

Next ==
    \/ MainFixEnv
    \/ MainCreateCredentials
    \/ MainCreateCredentialsRaises
    \/ MainImportCredentials
    \/ MainWorkflow
    \/ MainSkipWorkflow
    \/ MainReturn

Spec == Init /\ [][Next]_vars

-----------------------------------------------------------------------------
(* fix_env_file alone, on every .env of at most MaxLines lines of EnvLinePool *)

MaxLines == 3

EnvLinePool ==
    { "OPENAI_API_KEY=sk-abc\n", "def\n", "OPENAI_API_KEY=xxx\n", "xxx\n",
      "MISTRAL_API_KEY=xyz\n", "  MISTRAL_API_KEY=xxxxxx \n", "COHERE_API_KEY=xxxxxx\n",
      "COHERE_API_KEY\n", "ZEP_API_KEY=z\n", "SERVICE_ROLE_KEY=xxxxxx\n",
      "POSTGRES_PASSWORD=pw\n", "# comment\n", "\n" }

\* a file whose last line has no "\n"
Unterminated(file) ==
    IF file = <<>> THEN file
    ELSE [k \in 1..Len(file) |->
            IF k = Len(file) THEN SubSeq(file[k], 1, Len(file[k]) - 1) ELSE file[k]]

EnvFiles ==
    LET terminated == UNION {[1..n -> EnvLinePool] : n \in 0..MaxLines}
    IN  terminated \cup {Unterminated(f) : f \in {g \in terminated : g # <<>> /\ g[Len(g)] # "\n"}}

InitEnv ==
    /\ envExists \in BOOLEAN
    /\ envFile \in EnvFiles
    /\ ~envExists => envFile = <<>>
    /\ WfInit({})
    /\ NotStarted

NextEnv == MainFixEnv

SpecEnv == InitEnv /\ [][NextEnv]_vars

-----------------------------------------------------------------------------
(* The workflow loop of main() alone, after a successful credential import   *)
(* from EnvComplete, on every first workflow document of at most MaxNodes    *)
(* nodes of NodePool                                                         *)

MaxNodes == 2

LegacyIds == {LEGACY_OPENAI, LEGACY_MISTRAL, LEGACY_SUPABASE, LEGACY_POSTGRES, LEGACY_COHERE}

\* a credential entry: with a legacy id, with another id, or without any id
CredInfoPool == {CredInfo(id) : id \in LegacyIds \cup {"kZ3e9QpLr7TtUv2X"}} \cup {[name |-> "SOTA RAG"]}

\* a node: without credentials, with none, with one, or with two of them
NodePool ==
    {[name |-> "node"], [name |-> "node", credentials |-> <<>>]}
    \cup {[name |-> "node", credentials |-> [openAiApi |-> c]] : c \in CredInfoPool}
    \cup {[name |-> "node", credentials |-> [openAiApi |-> c, postgres |-> d]] :
             c \in CredInfoPool, d \in {CredInfo(LEGACY_POSTGRES), [name |-> "SOTA RAG"]}}

WorkflowDocs ==
    {[name |-> "workflow"]}
    \cup {[name |-> "workflow", nodes |-> ns] : ns \in UNION {[1..n -> NodePool] : n \in 0..MaxNodes}}

InitWf ==
    /\ pc = "workflows"
    /\ envExists = TRUE
    /\ envRead = EnvComplete
    /\ envFile = fix_env_file(TRUE, EnvComplete).file
    /\ envOps = <<"r", "w", "r">>
    /\ api_keys = fix_env_file(TRUE, EnvComplete).api_keys
    /\ cred_ids \in IdAssignments
    /\ credentials = create_credentials_directly(api_keys, envFile, cred_ids)
    /\ tmpFiles = [p \in TmpPaths |-> IF p = CREDS_FILE THEN credentials ELSE NoFile]
    /\ cmds = import_credentials(credentials, 0, 0).runs
    /\ \E doc \in WorkflowDocs \cup {NoDoc} :
          wfDoc = (workflows[1] :> doc) @@ (workflows[2] :> NoDoc)
    /\ wfExists = [w \in DOMAIN wfDoc |-> wfDoc[w] # NoDoc]
    /\ reported = [k \in {workflows[n] : n \in 1..Len(workflows)} |-> NoReport]
    /\ wi = 1
    /\ imported = 0
    /\ exitStatus = NoExit

NextWf ==
    \/ MainWorkflow
    \/ MainSkipWorkflow
    \/ MainReturn

SpecWf == InitWf /\ [][NextWf]_vars

-----------------------------------------------------------------------------
(* Properties of main() as a whole *)

Started(argv) == \E k \in 1..Len(cmds) : cmds[k].argv = argv
Failed(argv) == \E k \in 1..Len(cmds) : cmds[k].argv = argv /\ cmds[k].returncode # 0

WorkflowCommands ==
    {k \in 1..Len(cmds) :
        \/ cmds[k].argv = ExecImportWorkflow
        \/ \E n \in 1..Len(workflows) : cmds[k].argv = CopyWorkflow(workflows[n])}

\* import_credentials was called and came back with failure, for one of its
\* three reasons
CredentialImportFailed ==
    /\ pc \in {"workflows", "returned"}
    /\ \/ credentials = <<>>
       \/ Failed(CopyCredentials)
       \/ Failed(ExecImportCredentials)

\* C1: a run exits with 1 exactly when import_credentials returned failure, and
\* then runs no workflow copy or import command; every other run exits with 0.
C1_ExitStatus ==
    pc \in {"returned", "raised"} =>
        /\ exitStatus = 1 <=> CredentialImportFailed
        /\ CredentialImportFailed => WorkflowCommands = {}
        /\ ~CredentialImportFailed => exitStatus = 0

\* C2: without an .env file, fix_env_file opens nothing and returns an empty
\* dict, and the run goes on as with no keys: it never ends on an exception.
C2_MissingEnvIsNoError ==
    ~envExists =>
        /\ pc # "fix_env_file" => envOps = <<>> /\ api_keys = <<>>
        /\ pc # "raised"

-----------------------------------------------------------------------------
(* Properties of fix_env_file, stated on the lines read and the lines written *)

FixDone == pc = "create_credentials_directly" /\ envExists

StartsWithKey(raw, key) == startswith(strip(raw), key)

EnvKeys == {"OPENAI_API_KEY", "MISTRAL_API_KEY", "COHERE_API_KEY", "ZEP_API_KEY",
            "SERVICE_ROLE_KEY", "POSTGRES_PASSWORD"}

\* a line that is no fragment of a wrapped value: an entry of a key, or a comment
KeyOrComment(raw) == StartsWithKey(raw, "#") \/ \E key \in EnvKeys : StartsWithKey(raw, key)

OpenAILines(ls) == {k \in 1..Len(ls) : StartsWithKey(ls[k], "OPENAI_API_KEY=")}

\* the last line of the value that starts on line i: the fragments are i..e
LastFragment(ls, i) ==
    CHOOSE e \in i..Len(ls) :
        /\ \A k \in (i + 1)..e : ~KeyOrComment(ls[k])
        /\ e = Len(ls) \/ KeyOrComment(ls[e + 1])

RECURSIVE Joined(_, _, _)
Joined(ls, from, to) ==
    IF from > to THEN "" ELSE strip(ls[from]) \o Joined(ls, from + 1, to)

\* the value of the key whose entry starts on line i, its fragments joined
WrappedValue(ls, i) == split_eq_1(strip(ls[i])) \o Joined(ls, i + 1, LastFragment(ls, i))

LinesOfKey(file, key) == {k \in 1..Len(file) : StartsWithKey(file[k], key)}

\* C3: when the value of OPENAI_API_KEY is wrapped over N lines, whatever line
\* follows them, the rewritten file has exactly one OPENAI_API_KEY line, and it
\* holds the N fragments joined.  (Stated for the files with one such entry,
\* whose joined value is neither empty nor the placeholder.)
C3_WrappedKeyRejoined ==
    FixDone =>
        \A i \in OpenAILines(envRead) :
            (/\ OpenAILines(envRead) = {i}
             /\ WrappedValue(envRead, i) \notin {"", PLACEHOLDER})
            => /\ Cardinality(LinesOfKey(envFile, "OPENAI_API_KEY")) = 1
               /\ \A k \in LinesOfKey(envFile, "OPENAI_API_KEY") :
                     envFile[k] = "OPENAI_API_KEY=" \o WrappedValue(envRead, i) \o "\n"

HandledPrefix(raw) ==
    \/ StartsWithKey(raw, "OPENAI_API_KEY")
    \/ StartsWithKey(raw, "MISTRAL_API_KEY")
    \/ StartsWithKey(raw, "COHERE_API_KEY")

EndsOpenAIValue(raw) ==
    \/ StartsWithKey(raw, "MISTRAL_API_KEY")
    \/ StartsWithKey(raw, "COHERE_API_KEY")
    \/ StartsWithKey(raw, "#")

\* line k goes into the value of an OPENAI_API_KEY= line before it
Absorbed(ls, k) ==
    \E i \in 1..(k - 1) :
        /\ StartsWithKey(ls[i], "OPENAI_API_KEY=")
        /\ \A j \in (i + 1)..k : ~EndsOpenAIValue(ls[j])

\* the lines of ls whose index is in S, in order
RECURSIVE Picked(_, _, _)
Picked(ls, S, k) ==
    IF k > Len(ls) THEN <<>>
    ELSE (IF k \in S THEN <<ls[k]>> ELSE <<>>) \o Picked(ls, S, k + 1)

\* the same line, up to the "\n" the last line of a file may lack
SameLine(read, written) == read = written \/ read \o "\n" = written

\* kept occurs in file, in order, each line unmodified
RECURSIVE OccursInOrder(_, _)
OccursInOrder(kept, file) ==
    IF kept = <<>> THEN TRUE
    ELSE IF file = <<>> THEN FALSE
    ELSE IF SameLine(kept[1], file[1]) THEN OccursInOrder(Tail(kept), Tail(file))
    ELSE OccursInOrder(kept, Tail(file))

\* C4 as stated: every line that starts with none of the three handled
\* prefixes is in the rewritten file, unmodified and in its original order.
C4_OtherLinesKept ==
    FixDone =>
        OccursInOrder(Picked(envRead, {k \in 1..Len(envRead) : ~HandledPrefix(envRead[k])}, 1),
                      envFile)

OtherLinesLeft ==
    Picked(envRead,
           {k \in 1..Len(envRead) :
               /\ ~HandledPrefix(envRead[k])
               /\ ~StartsWithKey(envRead[k], "ZEP_API_KEY=")
               /\ ~Absorbed(envRead, k)},
           1)

\* C4, amended: every line that starts with none of the three handled prefixes
\* nor with ZEP_API_KEY=, and that is not absorbed into the value of an
\* OPENAI_API_KEY= line, is in the rewritten file, unmodified and in its
\* original order: these lines are the head of the file, and the section of
\* corrected keys follows them.
C4_UnabsorbedOtherLinesKept ==
    FixDone =>
        /\ Len(OtherLinesLeft) <= Len(envFile)
        /\ \A k \in 1..Len(OtherLinesLeft) : SameLine(OtherLinesLeft[k], envFile[k])
        /\ OccursInOrder(OtherLinesLeft, envFile)
        /\ envFile[Len(OtherLinesLeft) + 1] \in {"\n", "# SOTA RAG API Keys (Corrected)\n"}

\* fix_env_file ran on a file with a line it keeps after a line it absorbs
C4_Witness ==
    /\ FixDone
    /\ \E a, k \in 1..Len(envRead) :
          /\ a < k
          /\ Absorbed(envRead, a) /\ ~HandledPrefix(envRead[a])
          /\ ~HandledPrefix(envRead[k]) /\ ~Absorbed(envRead, k)
          /\ envFile[1] = envRead[k]

\* the value a key ends with: of the four keys fix_env_file captures, the value
\* in the dict; of the two it leaves in place, the value the file gives
FinalValue(key) ==
    IF key \in {"SERVICE_ROLE_KEY", "POSTGRES_PASSWORD"}
    THEN read_env_value(envFile, key \o "=", "")
    ELSE DictGet(api_keys, key)

\* C9 as stated: no key of the six whose final value is the placeholder has a
\* KEY=value line in the rewritten file.
C9_NoPlaceholderLine ==
    FixDone =>
        \A key \in EnvKeys :
            FinalValue(key) = PLACEHOLDER => LinesOfKey(envFile, key \o "=") = {}

\* C9, amended: no key of the four that fix_env_file captures (OPENAI_API_KEY,
\* MISTRAL_API_KEY, COHERE_API_KEY, ZEP_API_KEY) whose final value is the
\* placeholder has a KEY=value line in the rewritten file.
C9_NoCapturedPlaceholderLine ==
    FixDone =>
        \A key \in EnvKeys \ {"SERVICE_ROLE_KEY", "POSTGRES_PASSWORD"} :
            DictGet(api_keys, key) = PLACEHOLDER => LinesOfKey(envFile, key \o "=") = {}

\* fix_env_file ran on a file where one captured key ends with the placeholder,
\* its value being wrapped over two lines, and another key is written back
C9_Witness ==
    /\ FixDone
    /\ DictGet(api_keys, "OPENAI_API_KEY") = PLACEHOLDER
    /\ \E i \in OpenAILines(envRead) : split_eq_1(strip(envRead[i])) # PLACEHOLDER
    /\ \E key \in DictKeys(api_keys) : LinesOfKey(envFile, key \o "=") # {}

-----------------------------------------------------------------------------
(* Properties of create_credentials_directly and import_credentials *)

Created == pc \in {"import_credentials", "workflows", "returned"}

OfType(type) == {k \in 1..Len(credentials) : credentials[k].type = type}

\* C5: a key of the environment mapping whose value is the placeholder is
\* treated as absent: no credential record is built from it.
C5_PlaceholderIsAbsent ==
    Created =>
        /\ DictGet(api_keys, "OPENAI_API_KEY") = PLACEHOLDER => OfType("openAiApi") = {}
        /\ DictGet(api_keys, "MISTRAL_API_KEY") = PLACEHOLDER => OfType("mistralCloudApi") = {}
        /\ DictGet(api_keys, "COHERE_API_KEY") = PLACEHOLDER => OfType("httpHeaderAuth") = {}
        /\ FinalValue("SERVICE_ROLE_KEY") = PLACEHOLDER => OfType("supabaseApi") = {}
        /\ FinalValue("POSTGRES_PASSWORD") = PLACEHOLDER => OfType("postgres") = {}

\* C6: with a Cohere key that is not the placeholder, the Cohere record holds
\* "Bearer " and the key; without one, there is no Cohere record and the remap
\* table sends the legacy Cohere id to this run's OpenAI id.
C6_CohereOrFallback ==
    Created =>
        IF DictGet(api_keys, "COHERE_API_KEY") \notin {"", PLACEHOLDER}
        THEN /\ Cardinality(OfType("httpHeaderAuth")) = 1
             /\ \A k \in OfType("httpHeaderAuth") :
                   credentials[k].data.value = "Bearer " \o DictGet(api_keys, "COHERE_API_KEY")
        ELSE /\ OfType("httpHeaderAuth") = {}
             /\ id_map(cred_ids)[LEGACY_COHERE] = cred_ids.openai

ImportReturned == pc \in {"workflows", "returned"}
ImportSucceeded == pc = "workflows" \/ (pc = "returned" /\ exitStatus = 0)

\* C8: import_credentials succeeds only with a non-empty list and both commands
\* exiting with 0; with an empty list it fails and runs no command; when the
\* copy fails it fails and never runs the import command.
C8_ImportCredentials ==
    ImportReturned =>
        /\ ImportSucceeded =>
              /\ credentials # <<>>
              /\ Len(cmds) >= 2
              /\ cmds[1] = Run(CopyCredentials, 0)
              /\ cmds[2] = Run(ExecImportCredentials, 0)
        /\ credentials = <<>> => ~ImportSucceeded /\ cmds = <<>>
        /\ Failed(CopyCredentials) => ~ImportSucceeded /\ ~Started(ExecImportCredentials)

\* import_credentials returned failure after a failed copy
C8_Witness ==
    /\ pc = "returned"
    /\ exitStatus = 1
    /\ credentials # <<>>
    /\ cmds = <<Run(CopyCredentials, 1)>>

-----------------------------------------------------------------------------
(* Properties of the workflow loop *)

Workflows == {workflows[n] : n \in 1..Len(workflows)}

Processed(w) == tmpFiles[temp_file(w)] # NoFile

\* the family whose new id replaces a legacy id
NewId(legacy) ==
    CASE legacy = "MM0xMOJkVoJoWOLP" -> cred_ids["openai"]
      [] legacy = "rmhBwssORDiWOBKN" -> cred_ids["mistral"]
      [] legacy = "wwbxqbDc4H2RPQ1Y" -> cred_ids["supabase"]
      [] legacy = "7aOzWLaZcz9dgeSv" -> cred_ids["postgres"]
      [] legacy = "SaJzpmSGdmOFSPDn" -> cred_ids["cohere"]

HasLegacyId(info) == "id" \in DOMAIN info /\ info.id \in LegacyIds

\* the credential entries of a document: <<node, credential type>>
Entries(doc) ==
    IF "nodes" \in DOMAIN doc
    THEN {e \in (1..Len(doc.nodes)) \X {"openAiApi", "postgres", "httpHeaderAuth", "supabaseApi"} :
             /\ "credentials" \in DOMAIN doc.nodes[e[1]]
             /\ e[2] \in DOMAIN doc.nodes[e[1]].credentials}
    ELSE {}

EntryOf(doc, e) == doc.nodes[e[1]].credentials[e[2]]

\* node n but for the ids of its credential entries
Stripped(node) ==
    IF "credentials" \in DOMAIN node
    THEN [node EXCEPT !.credentials =
             [t \in DOMAIN node.credentials |->
                 [f \in DOMAIN node.credentials[t] \ {"id"} |-> node.credentials[t][f]]]]
    ELSE node

\* C7: in a patched document every entry whose id was a legacy constant has
\* the new id of its family, every other entry and everything else is as it
\* was, and the count reported is the number of entries whose id was legacy.
C7_WorkflowPatched ==
    \A w \in Workflows :
        Processed(w) =>
            LET old == wfDoc[w]
                new == tmpFiles[temp_file(w)]
            IN  /\ DOMAIN new = DOMAIN old
                /\ \A f \in DOMAIN old \ {"nodes"} : new[f] = old[f]
                /\ "nodes" \in DOMAIN old =>
                      /\ Len(new.nodes) = Len(old.nodes)
                      /\ \A n \in 1..Len(old.nodes) : Stripped(new.nodes[n]) = Stripped(old.nodes[n])
                /\ Entries(new) = Entries(old)
                /\ \A e \in Entries(old) :
                      IF HasLegacyId(EntryOf(old, e))
                      THEN /\ "id" \in DOMAIN EntryOf(new, e)
                           /\ EntryOf(new, e).id = NewId(EntryOf(old, e).id)
                      ELSE EntryOf(new, e) = EntryOf(old, e)
                /\ reported[w] # NoReport =>
                      reported[w] = <<Cardinality({e \in Entries(old) : HasLegacyId(EntryOf(old, e))})>>

\* a document with a legacy entry and another entry in one node and a legacy
\* entry in a second node was patched and imported, with 2 updates reported
C7_Witness ==
    \E w \in Workflows :
        /\ Processed(w)
        /\ reported[w] = <<2>>
        /\ \E e \in Entries(wfDoc[w]) : e[1] = 2 /\ HasLegacyId(EntryOf(wfDoc[w], e))
        /\ \E e1, e2 \in Entries(wfDoc[w]) :
              /\ e1[1] = 1 /\ e2[1] = 1
              /\ HasLegacyId(EntryOf(wfDoc[w], e1))
              /\ ~HasLegacyId(EntryOf(wfDoc[w], e2))
        /\ tmpFiles[temp_file(w)] # wfDoc[w]

CopyAt(w) == {k \in 1..Len(cmds) : cmds[k].argv = CopyWorkflow(w)}

\* the workflows whose copy and whose import, right after it, exited with 0
BothSucceeded ==
    {w \in Workflows :
        \E k \in CopyAt(w) :
            /\ cmds[k].returncode = 0
            /\ k < Len(cmds)
            /\ cmds[k + 1] = Run(ExecImportWorkflow, 0)}

\* C10: after a successful credential import the two workflows are processed
\* in order, knowledge-graph first; an absent file causes no command; a failure
\* on the first does not prevent the attempt on the second; an import command
\* comes only right after the copy of its workflow exited with 0; and the
\* tally is the number of workflows whose copy and import both succeeded.
C10_WorkflowLoop ==
    /\ WorkflowCommands # {} => pc \in {"workflows", "returned"} /\ ~CredentialImportFailed
    /\ \A w \in Workflows : ~wfExists[w] => CopyAt(w) = {} /\ ~Processed(w)
    /\ \A w \in Workflows : Cardinality(CopyAt(w)) <= 1
    /\ \A j \in CopyAt(workflows[1]), k \in CopyAt(workflows[2]) : j < k
    /\ Processed(workflows[2]) /\ wfExists[workflows[1]] => Processed(workflows[1])
    /\ \A k \in 1..Len(cmds) :
          cmds[k].argv = ExecImportWorkflow =>
              /\ k > 1
              /\ cmds[k - 1].returncode = 0
              /\ \E w \in Workflows : cmds[k - 1].argv = CopyWorkflow(w)
    /\ (pc = "returned" /\ exitStatus = 0) =>
          /\ \A w \in Workflows : wfExists[w] => CopyAt(w) # {} /\ Processed(w)
          /\ imported = Cardinality(BothSucceeded)

\* a run in which the import of the first workflow failed and the second
\* workflow was imported all the same
C10_Witness ==
    /\ pc = "returned"
    /\ exitStatus = 0
    /\ imported = 1
    /\ Len(cmds) = 6
    /\ cmds[3] = Run(CopyWorkflow(workflows[1]), 0)
    /\ cmds[4] = Run(ExecImportWorkflow, 1)
    /\ cmds[5] = Run(CopyWorkflow(workflows[2]), 0)
    /\ cmds[6] = Run(ExecImportWorkflow, 0)

====
